---- MODULE Spec2Model ----
(***************************************************************************)
(* Record-linkage engine of the Enrichment repository: name normalisation  *)
(* (matcher.py), candidate blocking, pair scoring and best-match flagging  *)
(* (pipeline.py) and the per-company orchestration (main.py).              *)
(*                                                                         *)
(* Strings are sequences of one-character strings, so that lowercasing,    *)
(* stripping, whitespace collapsing, tokenising and edit distance are      *)
(* computed character by character as the code computes them.              *)
(*                                                                         *)
(* Three specifications share the state: Spec runs main() and              *)
(* run_pipeline() over small tables, ScoreSpec runs compute_matches on one *)
(* candidate row drawn from a wide product of field values, and NormSpec   *)
(* applies normalize once and twice to every short string.                 *)
(***************************************************************************)
EXTENDS Integers, Sequences, FiniteSets, TLC

----------------------------------------------------------------------------
(* Python values *)

\* Python None / SQL NULL: a one-element sequence holding a marker that is
\* no character, so it differs from every string.
None == <<"<None>">>

\* pandas NaN, the blocking key and length of a missing or empty name.
NaN == "NaN"

\* Python truthiness of an optional string: None and "" are falsy.
Truthy(s) == s # None /\ s # <<>>

\* The idiom (x or "").
OrEmpty(s) == IF Truthy(s) THEN s ELSE <<>>

Min2(a, b) == IF a <= b THEN a ELSE b

Max2(a, b) == IF a >= b THEN a ELSE b

----------------------------------------------------------------------------
(* Character classes and string primitives *)

\* str.isspace() / regex \s on the characters of the model's alphabets.
Whitespace == {" ", "\t"}

ToLower == [A |-> "a", B |-> "b", C |-> "c", D |-> "d", E |-> "e", F |-> "f",
            G |-> "g", H |-> "h", I |-> "i", J |-> "j", K |-> "k", L |-> "l",
            M |-> "m", N |-> "n", O |-> "o", P |-> "p", Q |-> "q", R |-> "r",
            S |-> "s", T |-> "t", U |-> "u", V |-> "v", W |-> "w", X |-> "x",
            Y |-> "y", Z |-> "z"]

UpperLetters == DOMAIN ToLower

LowerLetters == {ToLower[c] : c \in UpperLetters}

Digits == {"0", "1", "2", "3", "4", "5", "6", "7", "8", "9"}

\* regex \w
WordChars == UpperLetters \cup LowerLetters \cup Digits \cup {"_"}

LowerChar(c) == IF c \in UpperLetters THEN ToLower[c] ELSE c

UpperChar(c) ==
    IF c \in LowerLetters
    THEN CHOOSE u \in UpperLetters : ToLower[u] = c
    ELSE c

\* str.lower()
Lower(s) == [i \in 1..Len(s) |-> LowerChar(s[i])]

\* str.upper()
Upper(s) == [i \in 1..Len(s) |-> UpperChar(s[i])]

RECURSIVE LStrip(_)
LStrip(s) ==
    IF s # <<>> /\ Head(s) \in Whitespace THEN LStrip(Tail(s)) ELSE s

RECURSIVE RStrip(_)
RStrip(s) ==
    IF s # <<>> /\ s[Len(s)] \in Whitespace
    THEN RStrip(SubSeq(s, 1, Len(s) - 1))
    ELSE s

\* str.strip()
Strip(s) == RStrip(LStrip(s))

\* re.sub(r"\s+", " ", s): every maximal run of whitespace becomes one space.
RECURSIVE CollapseWS(_)
CollapseWS(s) ==
    IF s = <<>> THEN <<>>
    ELSE IF Head(s) \in Whitespace
         THEN <<" ">> \o CollapseWS(LStrip(s))
         ELSE <<Head(s)>> \o CollapseWS(Tail(s))

\* s.replace("&", " and ")
RECURSIVE ReplaceAmp(_)
ReplaceAmp(s) ==
    IF s = <<>> THEN <<>>
    ELSE IF Head(s) = "&"
         THEN <<" ", "a", "n", "d", " ">> \o ReplaceAmp(Tail(s))
         ELSE <<Head(s)>> \o ReplaceAmp(Tail(s))

\* re.sub(r"[^\w\s]", " ", s): punctuation becomes a space.
PunctToSpace(s) ==
    [i \in 1..Len(s) |->
        IF s[i] \in WordChars \cup Whitespace THEN s[i] ELSE " "]

\* The first token of s (s starts with a non-whitespace character).
RECURSIVE FirstToken(_)
FirstToken(s) ==
    IF s = <<>> \/ Head(s) \in Whitespace THEN <<>>
    ELSE <<Head(s)>> \o FirstToken(Tail(s))

\* str.split(): the maximal runs of non-whitespace characters, in order.
RECURSIVE Split(_)
Split(s) ==
    LET t == LStrip(s) IN
    IF t = <<>> THEN <<>>
    ELSE LET w == FirstToken(t) IN
         <<w>> \o Split(SubSeq(t, Len(w) + 1, Len(t)))

\* sep.join(tokens)
RECURSIVE Join(_, _)
Join(sep, tokens) ==
    IF tokens = <<>> THEN <<>>
    ELSE IF Len(tokens) = 1 THEN Head(tokens)
         ELSE Head(tokens) \o sep \o Join(sep, Tail(tokens))

RECURSIVE FilterSeq(_, _)
FilterSeq(tokens, drop) ==
    IF tokens = <<>> THEN <<>>
    ELSE IF Head(tokens) \in drop
         THEN FilterSeq(Tail(tokens), drop)
         ELSE <<Head(tokens)>> \o FilterSeq(Tail(tokens), drop)

----------------------------------------------------------------------------
(* matcher.py: the normalizers *)

normalize_v1(name) ==
    IF ~Truthy(name) THEN <<>>
    ELSE CollapseWS(Strip(Lower(name)))

LEGAL_SUFFIXES ==
    { <<"i","n","c">>,
      <<"i","n","c","o","r","p","o","r","a","t","e","d">>,
      <<"l","l","c">>,
      <<"l",".","l",".","c">>,
      <<"l","t","d">>,
      <<"l","i","m","i","t","e","d">>,
      <<"c","o","r","p">>,
      <<"c","o","r","p","o","r","a","t","i","o","n">>,
      <<"c","o">>,
      <<"c","o","m","p","a","n","y">>,
      <<"h","o","l","d","i","n","g","s">>,
      <<"h","o","l","d","i","n","g">>,
      <<"g","r","o","u","p">>,
      <<"i","n","t","l">>,
      <<"i","n","t","e","r","n","a","t","i","o","n","a","l">> }

STOPWORDS == { <<"t","h","e">> }

\* A variant of the join below that glues the tokens with no separator.
JoinTokensGlued(tokens) == Join(<<>>, tokens)

\* " ".join(tokens) of normalize_v2's return statement (line 60).
JoinTokens(tokens) == Join(<<" ">>, tokens)

normalize_v2(name) ==
    IF ~Truthy(name) THEN <<>>
    ELSE LET s1 == Lower(name)
             s2 == ReplaceAmp(s1)
             s3 == PunctToSpace(s2)
             s4 == Strip(CollapseWS(s3))
             tokens == FilterSeq(Split(s4), STOPWORDS \cup LEGAL_SUFFIXES)
         IN JoinTokens(tokens)

\* The public normalize, switched by NORMALIZER_VERSION.
normalize(version, name) ==
    IF version = "v2" THEN normalize_v2(name) ELSE normalize_v1(name)

----------------------------------------------------------------------------
(* matcher.py: edit distance *)

\* One row of the dynamic programme: curr holds Python's curr[0..j-1].
RECURSIVE LevRow(_, _, _, _, _)
LevRow(curr, prev, ca, b, j) ==
    IF j > Len(b) THEN curr
    ELSE LET ins  == curr[j] + 1
             dele == prev[j + 1] + 1
             sub  == prev[j] + (IF ca # b[j] THEN 1 ELSE 0)
         IN LevRow(Append(curr, Min2(ins, Min2(dele, sub))), prev, ca, b, j + 1)

RECURSIVE LevRows(_, _, _, _)
LevRows(prev, a, b, i) ==
    IF i > Len(a) THEN prev
    ELSE LevRows(LevRow(<<i>>, prev, a[i], b, 1), a, b, i + 1)

compute_distance(a, b) ==
    IF a = b THEN 0
    ELSE IF a = <<>> THEN Len(b)
    ELSE IF b = <<>> THEN Len(a)
    ELSE LET last == LevRows([j \in 1..(Len(b) + 1) |-> j - 1], a, b, 1)
         IN last[Len(b) + 1]

----------------------------------------------------------------------------
(* matcher.py: fuzzy scoring *)

\* The values fuzzy_similarity_score can return: 0 without a usable name or
\* without rapidfuzz, otherwise whatever the library's scorers give (0..100).
FuzzySimilarityScores(a, b, has_rapidfuzz) ==
    IF ~Truthy(a) \/ ~Truthy(b) \/ ~has_rapidfuzz THEN {0} ELSE 0..100

fuzzy_score_to_dist(score_0_100, max_d) ==
    IF score_0_100 >= 95 THEN 0
    ELSE IF score_0_100 >= 90 THEN 1
    ELSE IF score_0_100 >= 85 THEN 2
    ELSE IF score_0_100 >= 80 THEN 3
    ELSE max_d

----------------------------------------------------------------------------
(* pipeline.py: state normalisation *)

US_STATE_MAP ==
    {
      <<<<"a","l","a","b","a","m","a">>, <<"A","L">>>>,
      <<<<"a","l","a","s","k","a">>, <<"A","K">>>>,
      <<<<"a","r","i","z","o","n","a">>, <<"A","Z">>>>,
      <<<<"a","r","k","a","n","s","a","s">>, <<"A","R">>>>,
      <<<<"c","a","l","i","f","o","r","n","i","a">>, <<"C","A">>>>,
      <<<<"c","o","l","o","r","a","d","o">>, <<"C","O">>>>,
      <<<<"c","o","n","n","e","c","t","i","c","u","t">>, <<"C","T">>>>,
      <<<<"d","e","l","a","w","a","r","e">>, <<"D","E">>>>,
      <<<<"f","l","o","r","i","d","a">>, <<"F","L">>>>,
      <<<<"g","e","o","r","g","i","a">>, <<"G","A">>>>,
      <<<<"h","a","w","a","i","i">>, <<"H","I">>>>,
      <<<<"i","d","a","h","o">>, <<"I","D">>>>,
      <<<<"i","l","l","i","n","o","i","s">>, <<"I","L">>>>,
      <<<<"i","n","d","i","a","n","a">>, <<"I","N">>>>,
      <<<<"i","o","w","a">>, <<"I","A">>>>,
      <<<<"k","a","n","s","a","s">>, <<"K","S">>>>,
      <<<<"k","e","n","t","u","c","k","y">>, <<"K","Y">>>>,
      <<<<"l","o","u","i","s","i","a","n","a">>, <<"L","A">>>>,
      <<<<"m","a","i","n","e">>, <<"M","E">>>>,
      <<<<"m","a","r","y","l","a","n","d">>, <<"M","D">>>>,
      <<<<"m","a","s","s","a","c","h","u","s","e","t","t","s">>, <<"M","A">>>>,
      <<<<"m","i","c","h","i","g","a","n">>, <<"M","I">>>>,
      <<<<"m","i","n","n","e","s","o","t","a">>, <<"M","N">>>>,
      <<<<"m","i","s","s","i","s","s","i","p","p","i">>, <<"M","S">>>>,
      <<<<"m","i","s","s","o","u","r","i">>, <<"M","O">>>>,
      <<<<"m","o","n","t","a","n","a">>, <<"M","T">>>>,
      <<<<"n","e","b","r","a","s","k","a">>, <<"N","E">>>>,
      <<<<"n","e","v","a","d","a">>, <<"N","V">>>>,
      <<<<"n","e","w"," ","h","a","m","p","s","h","i","r","e">>, <<"N","H">>>>,
      <<<<"n","e","w"," ","j","e","r","s","e","y">>, <<"N","J">>>>,
      <<<<"n","e","w"," ","m","e","x","i","c","o">>, <<"N","M">>>>,
      <<<<"n","e","w"," ","y","o","r","k">>, <<"N","Y">>>>,
      <<<<"n","o","r","t","h"," ","c","a","r","o","l","i","n","a">>, <<"N","C">>>>,
      <<<<"n","o","r","t","h"," ","d","a","k","o","t","a">>, <<"N","D">>>>,
      <<<<"o","h","i","o">>, <<"O","H">>>>,
      <<<<"o","k","l","a","h","o","m","a">>, <<"O","K">>>>,
      <<<<"o","r","e","g","o","n">>, <<"O","R">>>>,
      <<<<"p","e","n","n","s","y","l","v","a","n","i","a">>, <<"P","A">>>>,
      <<<<"r","h","o","d","e"," ","i","s","l","a","n","d">>, <<"R","I">>>>,
      <<<<"s","o","u","t","h"," ","c","a","r","o","l","i","n","a">>, <<"S","C">>>>,
      <<<<"s","o","u","t","h"," ","d","a","k","o","t","a">>, <<"S","D">>>>,
      <<<<"t","e","n","n","e","s","s","e","e">>, <<"T","N">>>>,
      <<<<"t","e","x","a","s">>, <<"T","X">>>>,
      <<<<"u","t","a","h">>, <<"U","T">>>>,
      <<<<"v","e","r","m","o","n","t">>, <<"V","T">>>>,
      <<<<"v","i","r","g","i","n","i","a">>, <<"V","A">>>>,
      <<<<"w","a","s","h","i","n","g","t","o","n">>, <<"W","A">>>>,
      <<<<"w","e","s","t"," ","v","i","r","g","i","n","i","a">>, <<"W","V">>>>,
      <<<<"w","i","s","c","o","n","s","i","n">>, <<"W","I">>>>,
      <<<<"w","y","o","m","i","n","g">>, <<"W","Y">>>> }

StateLookup(key) ==
    IF \E p \in US_STATE_MAP : p[1] = key
    THEN (CHOOSE p \in US_STATE_MAP : p[1] = key)[2]
    ELSE <<>>

normalize_state(s) ==
    IF ~Truthy(s) THEN <<>>
    ELSE LET t == Strip(s) IN
         IF t = <<>> THEN <<>>
         ELSE IF Len(t) = 2 THEN Upper(t)
         ELSE StateLookup(Lower(t))

----------------------------------------------------------------------------
(* pipeline.py: compute_matches, the body of the loop over candidate rows *)

\* A variant of the rule below without the short-name branch.
NameDistNoShortRule(bi_norm, sf_norm, max_d) ==
    IF Min2(Len(bi_norm), Len(sf_norm)) = 0 THEN max_d + 1
    ELSE compute_distance(bi_norm, sf_norm)

\* A variant of the rule below that looks at the length of the BI name only.
NameDistBiLength(bi_norm, sf_norm, max_d) ==
    IF Len(bi_norm) = 0 THEN max_d + 1
    ELSE IF Len(bi_norm) < 4
         THEN (IF bi_norm = sf_norm THEN 0 ELSE Max2(4, max_d))
         ELSE compute_distance(bi_norm, sf_norm)

\* Lines 255-267: the short-name rule and the edit distance.
NameDist(bi_norm, sf_norm, max_d) ==
    LET min_len == Min2(Len(bi_norm), Len(sf_norm)) IN
    IF min_len = 0 THEN max_d + 1
    ELSE IF min_len < 4
         THEN (IF bi_norm = sf_norm THEN 0 ELSE Max2(4, max_d))
         ELSE compute_distance(bi_norm, sf_norm)

\* (value or "").strip().lower()
CleanField(v) == Lower(Strip(OrEmpty(v)))

\* Lines 276-284.
EmailScore(row) ==
    LET bi_email == CleanField(row.BIEmail)
        sf_email == CleanField(row.SFEmail)
    IN IF bi_email = <<>> \/ sf_email = <<>> THEN 0
       ELSE IF bi_email = sf_email THEN -1
       ELSE 0

\* A variant of the rule below in the manner of scorer.py's city_score: a
\* value missing on either side scores 0.
AnyOfScoreNeutral(bi, sf_clean) ==
    IF bi = <<>> \/ sf_clean = {} THEN 0
    ELSE IF bi \in sf_clean THEN -1
    ELSE 1

\* The rule shared by the city and the state score (lines 297-302, 316-321):
\* bi is the cleaned BI value, sf_clean the set of non-empty SF values.
AnyOfScore(bi, sf_clean) ==
    IF bi = <<>> /\ sf_clean = {} THEN 0
    ELSE IF bi # <<>> /\ bi \in sf_clean THEN -1
    ELSE 1

\* Lines 289-302.
CityScore(row) ==
    LET bi_city == CleanField(row.BICity)
        sf_cities == {CleanField(row.SFBillingCity),
                      CleanField(row.SFShippingCity)}
        sf_cities_clean == {c \in sf_cities : c # <<>>}
    IN AnyOfScore(bi_city, sf_cities_clean)

\* Lines 307-321.
StateScore(row) ==
    LET bi_state == normalize_state(Strip(OrEmpty(row.BIState)))
        sf_states == {normalize_state(Strip(OrEmpty(row.SFBillingState))),
                      normalize_state(Strip(OrEmpty(row.SFShippingState)))}
        sf_states_clean == {s \in sf_states : s # <<>>}
    IN AnyOfScore(bi_state, sf_states_clean)

\* Line 323.
TotalScore(d, email_score, city_score, state_score) ==
    d + email_score + city_score + state_score

\* Lines 252-267: dist of one candidate row.
RowDist(row, max_d, version) ==
    NameDist(normalize(version, OrEmpty(row.BIName)),
             normalize(version, OrEmpty(row.SFName)), max_d)

\* A variant of the test below that lets through a distance of max_dist + 1.
BeyondThresholdOffByOne(d, max_d) == d > max_d + 1

\* Lines 270-271: the row is skipped when its distance is beyond the threshold.
BeyondThreshold(d, max_d) == d > max_d

\* Lines 325-346: the result row appended for a surviving candidate.
ResultRow(row, d) ==
    LET email_score == EmailScore(row)
        city_score  == CityScore(row)
        state_score == StateScore(row)
    IN [ CompanyCode |-> row.CompanyCode,
         CustomerId |-> row.CustomerId,
         CustomerNumber |-> row.CustomerNumber,
         AccountId |-> row.AccountId,
         Spectrum_Customer_Code__c |-> row.SpectrumCode,
         BuildOpsName |-> OrEmpty(row.BIName),
         SalesforceName |-> OrEmpty(row.SFName),
         BuildOpsEmail |-> row.BIEmail,
         SalesforceEmail |-> row.SFEmail,
         BuildOpsCity |-> row.BICity,
         SalesforceCityBilling |-> row.SFBillingCity,
         SalesforceCityShipping |-> row.SFShippingCity,
         BuildOpsState |-> row.BIState,
         SalesforceStateBilling |-> row.SFBillingState,
         SalesforceStateShipping |-> row.SFShippingState,
         Dist |-> d,
         EmailScore |-> email_score,
         AddressCityScore |-> city_score,
         StateScore |-> state_score,
         TotalScore |-> TotalScore(d, email_score, city_score, state_score) ]

\* Lines 353-355: s.min() of the TotalScore of one CustomerId group.
GroupMin(rows, customer_id) ==
    LET scores == {rows[j].TotalScore :
                     j \in {n \in 1..Len(rows) : rows[n].CustomerId = customer_id}}
    IN CHOOSE m \in scores : \A s \in scores : m <= s

\* A variant of the flag below that marks only the first row at the minimum
\* (idxmin) in place of every row equal to it.
BestMatchFlagFirstOnly(rows, j) ==
    IF rows[j].TotalScore = GroupMin(rows, rows[j].CustomerId)
       /\ \A n \in 1..(j - 1) :
            rows[n].CustomerId = rows[j].CustomerId
               => rows[n].TotalScore # rows[j].TotalScore
    THEN 1 ELSE 0

\* Line 354: (s == s.min()).astype(int)
BestMatchFlag(rows, j) ==
    IF rows[j].TotalScore = GroupMin(rows, rows[j].CustomerId) THEN 1 ELSE 0

\* Lines 348-357: the data frame returned by compute_matches.
WithBestMatchFlag(rows) ==
    [j \in 1..Len(rows) |->
        [f \in DOMAIN rows[j] \cup {"BestMatchFlag"} |->
            IF f = "BestMatchFlag" THEN BestMatchFlag(rows, j) ELSE rows[j][f]]]

----------------------------------------------------------------------------
(* pipeline.py: block_pairs *)

\* Series.str[0].str.upper(): NaN for a missing or empty name.
FirstChar(name) ==
    IF ~Truthy(name) THEN NaN ELSE UpperChar(name[1])

\* Series.str.len(): NaN for a missing name.
NameLen(name) == IF name = None THEN NaN ELSE Len(name)

\* Line 193: the length window; a comparison with NaN is False.
LengthBand == 3

InLengthBand(bi_name, sf_name) ==
    /\ bi_name # None
    /\ sf_name # None
    /\ (IF Len(bi_name) >= Len(sf_name)
        THEN Len(bi_name) - Len(sf_name)
        ELSE Len(sf_name) - Len(bi_name)) <= LengthBand

\* One row of the merged frame: the renamed BI and SF columns (lines 156-182).
MergedRow(bi, sf) ==
    [ CustomerId |-> bi.CustomerId,
      CustomerNumber |-> bi.CustomerNumber,
      BIName |-> bi.Name,
      BIEmail |-> bi.Customer_Email,
      BICity |-> bi.City,
      BIState |-> bi.State,
      FirstChar |-> FirstChar(bi.Name),
      NameLen_bi |-> NameLen(bi.Name),
      AccountId |-> sf.Id,
      SFName |-> sf.Name,
      SFEmail |-> sf.Email__c,
      SFBillingCity |-> sf.BillingCity,
      SFBillingState |-> sf.BillingState,
      SFShippingCity |-> sf.ShippingCity,
      SFShippingState |-> sf.ShippingState,
      SpectrumCode |-> sf.Spectrum_Customer_Code__c,
      NameLen_sf |-> NameLen(sf.Name) ]

\* The SF rows joined to one BI row: equal FirstChar (pandas joins NaN keys
\* to NaN keys), then the length window of lines 192-194.
RECURSIVE JoinOne(_, _)
JoinOne(bi, sf_rows) ==
    IF sf_rows = <<>> THEN <<>>
    ELSE LET sf == Head(sf_rows)
             rest == JoinOne(bi, Tail(sf_rows))
         IN IF FirstChar(bi.Name) = FirstChar(sf.Name)
               /\ InLengthBand(bi.Name, sf.Name)
            THEN <<MergedRow(bi, sf)>> \o rest
            ELSE rest

\* df_bi.merge(df_sf, on="FirstChar", how="inner"): left (BI) order is kept.
RECURSIVE JoinAll(_, _)
JoinAll(bi_rows, sf_rows) ==
    IF bi_rows = <<>> THEN <<>>
    ELSE JoinOne(Head(bi_rows), sf_rows) \o JoinAll(Tail(bi_rows), sf_rows)

block_pairs(sf_rows, bi_rows) ==
    IF sf_rows = <<>> \/ bi_rows = <<>> THEN <<>>
    ELSE JoinAll(bi_rows, sf_rows)

\* run_pipeline line 467: df_pairs["CompanyCode"] = company_code
TagCompanyCode(rows, code) ==
    [j \in 1..Len(rows) |->
        [f \in DOMAIN rows[j] \cup {"CompanyCode"} |->
            IF f = "CompanyCode" THEN code ELSE rows[j][f]]]

----------------------------------------------------------------------------
(* pipeline.py: insert_results *)

\* Lines 395-419: the columns written to ResultsBI.
InsertCols ==
    { "CompanyCode", "CustomerId", "CustomerNumber", "AccountId",
      "Spectrum_Customer_Code__c", "BuildOpsName", "SalesforceName",
      "BuildOpsEmail", "SalesforceEmail", "BuildOpsCity",
      "SalesforceCityBilling", "SalesforceCityShipping", "BuildOpsState",
      "SalesforceStateBilling", "SalesforceStateShipping", "Dist",
      "EmailScore", "AddressCityScore", "StateScore", "TotalScore",
      "BestMatchFlag" }

Project(rows, cols) ==
    [j \in 1..Len(rows) |-> [f \in cols |-> rows[j][f]]]

----------------------------------------------------------------------------
(* main.py: configuration and call binding *)

\* Line 59.
valid_systems ==
    { <<"b","u","i","l","d","o","p","s">>,
      <<"s","p","e","c","t","r","u","m">>,
      <<"b","o","t","h">> }

BuildopsSystems ==
    { <<"b","u","i","l","d","o","p","s">>, <<"b","o","t","h">> }

SpectrumSystems ==
    { <<"s","p","e","c","t","r","u","m">>, <<"b","o","t","h">> }

\* A variant of the check below that accepts every value.
SystemAcceptedAlways(system) == TRUE

\* Line 60: the check of SYSTEM against valid_systems.
SystemAccepted(system) == system \in valid_systems

\* pipeline.py lines 435-441: the parameters run_pipeline declares, and those
\* without a default.
RunPipelineParams ==
    {"engine", "company_code", "max_dist", "batch_scores", "final_scores"}

RunPipelineRequired == {"engine", "company_code", "max_dist"}

\* main.py lines 72-79 and 82-89: the keywords main passes.
MainCallKeywords ==
    {"engine", "company_code", "max_dist", "source_system", "batch_scores",
     "final_scores"}

\* Python binds a call only if every keyword names a parameter and every
\* parameter without a default is given; otherwise it raises TypeError.
CallBinds(keywords, params, required) ==
    keywords \subseteq params /\ required \subseteq keywords

----------------------------------------------------------------------------
(* State *)

VARIABLES
    NORMALIZER_VERSION, \* matcher.py line 4
    SYSTEM,             \* main.py line 22, stripped and lowercased
    COMPANY_CODE,       \* main.py line 19
    MAX_DIST,           \* main.py line 25
    db,                 \* the database: company code -> [sf, bi] rows
    main_pc,            \* position of main(): none, start, validate, loop, done, raised
    company_list,       \* main's company_list
    code_idx,           \* index of `code` in the for loop of main
    phase,              \* where main is inside the loop body
    calls,              \* the run_pipeline calls main has made, in order
    caller,             \* who entered the pipeline code: main, run_pipeline, compute_matches
    pc,                 \* position inside run_pipeline / compute_matches
    error,              \* the exception that ended the run, or "none"
    company_code,       \* run_pipeline's company_code
    max_dist,           \* run_pipeline's / compute_matches' max_dist
    df_sf, df_bi,       \* the loaded frames
    df_pairs,           \* the candidate rows
    i,                  \* 1-based index of the next row of the loop of compute_matches
    dist,               \* the local dist of the row just processed
    results,            \* the list results of compute_matches
    df_results,         \* the frame returned by compute_matches
    ResultsBI,          \* the rows appended to table ResultsBI
    norm_pc, norm_in, norm_once, norm_twice, \* a normalize round trip
    fn_pc, arg_1, arg_2, res_1, res_2  \* a function applied to two inputs

cfgVars  == <<NORMALIZER_VERSION, SYSTEM, COMPANY_CODE, MAX_DIST, db>>
mainVars == <<main_pc, company_list, code_idx, phase, calls>>
unitVars == <<caller, pc, error, company_code, max_dist, df_sf, df_bi,
              df_pairs, i, dist, results, df_results, ResultsBI>>
normVars == <<norm_pc, norm_in, norm_once, norm_twice>>
pureVars == <<fn_pc, arg_1, arg_2, res_1, res_2>>
vars     == <<cfgVars, mainVars, unitVars, normVars, pureVars>>

----------------------------------------------------------------------------
(* Bounds and input universes *)

\* Largest distance threshold (DIST) explored.
MaxDistBound == 5

\* Largest number of rows a loaded table holds.
MaxRows == 2

\* Longest raw name given to the normalizers.
MaxNameLen == 4

MaxDists == 1..MaxDistBound

Versions == {"v1", "v2"}

Codes == { <<"C","1">>, <<"C","2">> }

\* COMPANY_CODE settings: "ALL" in two spellings, and one single code.
CompanyCodeSettings ==
    { <<"A","L","L">>, <<"a","l","l">>, <<"C","1">> }

\* What load_all_company_codes can return: DISTINCT, ORDER BY.
CompanyLists ==
    { <<>>, << <<"C","1">> >>, << <<"C","2">> >>,
      << <<"C","1">>, <<"C","2">> >> }

\* Raw SYSTEM settings of the environment.
RawSystems ==
    { <<"B","u","i","l","d","O","p","s">>,
      <<" ","s","p","e","c","t","r","u","m">>,
      <<"B","O","T","H"," ">>,
      <<"c","r","m">> }

BIContents ==
    { [Name |-> <<"A","c","m","e">>, Customer_Email |-> <<"a","@","x">>,
       City |-> <<"D","v">>, State |-> <<"C","O">>],
      [Name |-> <<"F","y","i">>, Customer_Email |-> None,
       City |-> None, State |-> None],
      [Name |-> <<>>, Customer_Email |-> None,
       City |-> None, State |-> None] }

SFContents ==
    { [Name |-> <<"A","C","M","E">>, Email__c |-> <<"A","@","X">>,
       BillingCity |-> <<"d","v">>, BillingState |-> <<"c","o">>,
       ShippingCity |-> None, ShippingState |-> None],
      [Name |-> <<"A","c","m","y">>, Email__c |-> None,
       BillingCity |-> None, BillingState |-> None,
       ShippingCity |-> None, ShippingState |-> None],
      [Name |-> <<"F","g","o">>, Email__c |-> None,
       BillingCity |-> None, BillingState |-> None,
       ShippingCity |-> None, ShippingState |-> None],
      [Name |-> <<>>, Email__c |-> None,
       BillingCity |-> None, BillingState |-> None,
       ShippingCity |-> None, ShippingState |-> None] }

\* load_bi_customers: id AS CustomerId, Customer_Code AS CustomerNumber, ...
BIRow(j, c) ==
    [ CustomerId |-> j, CustomerNumber |-> j, Name |-> c.Name,
      Customer_Email |-> c.Customer_Email, City |-> c.City,
      State |-> c.State ]

\* load_sf_accounts: only accounts WHERE Spectrum_Customer_Code__c IS NULL.
SFRow(j, c) ==
    [ Id |-> j, Name |-> c.Name, Email__c |-> c.Email__c,
      BillingCity |-> c.BillingCity, BillingState |-> c.BillingState,
      ShippingCity |-> c.ShippingCity, ShippingState |-> c.ShippingState,
      Spectrum_Customer_Code__c |-> None ]

BITables(n) ==
    UNION { { [j \in 1..m |-> BIRow(j, f[j])] : f \in [1..m -> BIContents] }
            : m \in 0..n }

SFTables(n) ==
    UNION { { [j \in 1..m |-> SFRow(j, f[j])] : f \in [1..m -> SFContents] }
            : m \in 0..n }

Datasets(n) == [sf : SFTables(n), bi : BITables(n)]

\* The data of the units main runs over: each side empty or one row.
MainDatasets ==
    { ds \in Datasets(1) :
        /\ \A j \in 1..Len(ds.sf) : ds.sf[j].Name = <<"A","C","M","E">>
        /\ \A j \in 1..Len(ds.bi) : ds.bi[j].Name = <<"A","c","m","e">> }

----------------------------------------------------------------------------
(* Initial states *)

NormIdle ==
    /\ norm_pc = "idle"
    /\ norm_in = <<>>
    /\ norm_once = <<>>
    /\ norm_twice = <<>>

PureIdle ==
    /\ fn_pc = "idle"
    /\ arg_1 = <<>>
    /\ arg_2 = <<>>
    /\ res_1 = 0
    /\ res_2 = 0

MainIdle ==
    /\ main_pc = "none"
    /\ company_list = <<>>
    /\ code_idx = 0
    /\ phase = "none"
    /\ calls = <<>>

UnitLocalsFresh ==
    /\ error = "none"
    /\ df_sf = <<>>
    /\ df_bi = <<>>
    /\ df_pairs = <<>>
    /\ i = 1
    /\ dist = 0
    /\ results = <<>>
    /\ df_results = <<>>
    /\ ResultsBI = <<>>

\* run_pipeline(engine, company_code, max_dist) called on its own.
InitRunPipeline ==
    /\ NORMALIZER_VERSION \in Versions
    /\ SYSTEM = <<"b","u","i","l","d","o","p","s">>
    /\ COMPANY_CODE = <<"A","L","L">>
    /\ MAX_DIST \in MaxDists
    /\ \E ds \in Datasets(MaxRows) : db = [c \in Codes |-> ds]
    /\ MainIdle
    /\ caller = "run_pipeline"
    /\ pc = "load_sf"
    /\ company_code \in Codes
    /\ max_dist = MAX_DIST
    /\ UnitLocalsFresh
    /\ NormIdle
    /\ PureIdle

\* python main.py: the module-level settings are read from the environment.
InitMain ==
    /\ NORMALIZER_VERSION \in Versions
    /\ SYSTEM \in {Lower(Strip(raw)) : raw \in RawSystems}
    /\ COMPANY_CODE \in CompanyCodeSettings
    /\ MAX_DIST \in MaxDists
    /\ db \in [Codes -> MainDatasets]
    /\ main_pc = "start"
    /\ company_list = <<>>
    /\ code_idx = 0
    /\ phase = "none"
    /\ calls = <<>>
    /\ caller = "main"
    /\ pc = "idle"
    /\ company_code = <<>>
    /\ max_dist = MAX_DIST
    /\ UnitLocalsFresh
    /\ NormIdle
    /\ PureIdle

Init == InitRunPipeline \/ InitMain

----------------------------------------------------------------------------
(* run_pipeline: how it ends *)

\* A return of run_pipeline: a direct call is over; main goes on in its loop.
Return ==
    /\ pc' = "returned"
    /\ error' = error
    /\ IF caller = "main"
       THEN main_pc' = "loop" /\ UNCHANGED <<company_list, code_idx, phase, calls>>
       ELSE UNCHANGED mainVars

\* An exception leaving run_pipeline: nothing in run_pipeline or in main
\* catches it, so it ends main as well.
Raise(e) ==
    /\ pc' = "raised"
    /\ error' = e
    /\ IF caller = "main"
       THEN main_pc' = "raised" /\ UNCHANGED <<company_list, code_idx, phase, calls>>
       ELSE UNCHANGED mainVars

----------------------------------------------------------------------------
(* run_pipeline, lines 450-479 *)

\* Lines 450-452: load_sf_accounts; pd.read_sql may raise.
LoadSfAccounts ==
    /\ pc = "load_sf"
    /\ \/ /\ df_sf' = db[company_code].sf
          /\ pc' = "load_bi"
          /\ UNCHANGED <<error, mainVars>>
       \/ /\ Raise("DBError")
          /\ UNCHANGED df_sf
    /\ UNCHANGED <<cfgVars, caller, company_code, max_dist, df_bi, df_pairs, i,
                   dist, results, df_results, ResultsBI, normVars,
                   pureVars>>

\* Lines 454-456: load_bi_customers; pd.read_sql may raise.
LoadBiCustomers ==
    /\ pc = "load_bi"
    /\ \/ /\ df_bi' = db[company_code].bi
          /\ pc' = "block"
          /\ UNCHANGED <<error, mainVars>>
       \/ /\ Raise("DBError")
          /\ UNCHANGED df_bi
    /\ UNCHANGED <<cfgVars, caller, company_code, max_dist, df_sf, df_pairs, i,
                   dist, results, df_results, ResultsBI, normVars,
                   pureVars>>

\* Lines 458-467: block_pairs, the early return on no candidates, the tag.
BlockPairs ==
    /\ pc = "block"
    /\ LET pairs == block_pairs(df_sf, df_bi) IN
       IF pairs = <<>>
       THEN /\ df_pairs' = pairs
            /\ Return
       ELSE /\ df_pairs' = TagCompanyCode(pairs, company_code)
            /\ pc' = "score"
            /\ UNCHANGED <<error, mainVars>>
    /\ i' = 1
    /\ results' = <<>>
    /\ UNCHANGED <<cfgVars, caller, company_code, max_dist, df_sf, df_bi, dist,
                   df_results, ResultsBI, normVars,
                   pureVars>>

\* compute_matches lines 246-346: one iteration of the loop over df_pairs.
ComputeMatchesRow ==
    /\ pc = "score"
    /\ i <= Len(df_pairs)
    /\ LET row == df_pairs[i]
           d == RowDist(row, max_dist, NORMALIZER_VERSION)
       IN /\ dist' = d
          /\ results' = IF BeyondThreshold(d, max_dist)
                        THEN results
                        ELSE Append(results, ResultRow(row, d))
    /\ i' = i + 1
    /\ UNCHANGED <<cfgVars, mainVars, caller, pc, error, company_code, max_dist,
                   df_sf, df_bi, df_pairs, df_results, ResultsBI, normVars,
                   pureVars>>

\* compute_matches lines 348-357: the frame with BestMatchFlag is returned.
ComputeMatchesFlag ==
    /\ pc = "score"
    /\ i > Len(df_pairs)
    /\ df_results' = WithBestMatchFlag(results)
    /\ pc' = "scored"
    /\ UNCHANGED <<cfgVars, mainVars, caller, error, company_code, max_dist,
                   df_sf, df_bi, df_pairs, i, dist, results, ResultsBI, normVars,
                   pureVars>>

\* Lines 473-475: no match survived, run_pipeline returns.
SkipNoMatches ==
    /\ pc = "scored"
    /\ caller # "compute_matches"
    /\ df_results = <<>>
    /\ Return
    /\ UNCHANGED <<cfgVars, caller, company_code, max_dist, df_sf, df_bi,
                   df_pairs, i, dist, results, df_results, ResultsBI, normVars,
                   pureVars>>

\* Lines 477-479: insert_results appends the rows; to_sql may raise.
InsertResults ==
    /\ pc = "scored"
    /\ caller # "compute_matches"
    /\ df_results # <<>>
    /\ \/ /\ ResultsBI' = ResultsBI \o Project(df_results, InsertCols)
          /\ Return
       \/ /\ Raise("DBError")
          /\ UNCHANGED ResultsBI
    /\ UNCHANGED <<cfgVars, caller, company_code, max_dist, df_sf, df_bi,
                   df_pairs, i, dist, results, df_results, normVars,
                   pureVars>>

----------------------------------------------------------------------------
(* main, lines 42-93 *)

\* Lines 43-54: the engine is created and the company codes are determined.
MainDetermineCodes ==
    /\ main_pc = "start"
    /\ IF Upper(COMPANY_CODE) = <<"A","L","L">>
       THEN \/ /\ company_list' \in CompanyLists
               /\ main_pc' = "validate"
               /\ error' = error
            \/ /\ company_list' = company_list
               /\ main_pc' = "raised"
               /\ error' = "DBError"
       ELSE /\ company_list' = <<COMPANY_CODE>>
            /\ main_pc' = "validate"
            /\ error' = error
    /\ UNCHANGED <<cfgVars, code_idx, phase, calls, caller, pc, company_code,
                   max_dist, df_sf, df_bi, df_pairs, i, dist, results,
                   df_results, ResultsBI, normVars,
                   pureVars>>

\* Lines 59-63: SYSTEM is validated before the loop.
MainValidateSystem ==
    /\ main_pc = "validate"
    /\ IF SystemAccepted(SYSTEM)
       THEN /\ main_pc' = "loop"
            /\ code_idx' = 1
            /\ phase' = "buildops"
            /\ error' = error
       ELSE /\ main_pc' = "raised"
            /\ error' = "ValueError"
            /\ UNCHANGED <<code_idx, phase>>
    /\ UNCHANGED <<cfgVars, company_list, calls, caller, pc, company_code,
                   max_dist, df_sf, df_bi, df_pairs, i, dist, results,
                   df_results, ResultsBI, normVars,
                   pureVars>>

\* Lines 72-79 / 82-89: the call run_pipeline(..., source_system=...). The
\* call is bound against the parameters run_pipeline declares; a call that
\* does not bind raises TypeError in main, where nothing catches it.
MainCall(code, source_system, next_phase) ==
    /\ calls' = Append(calls, [company_code |-> code,
                               source_system |-> source_system])
    /\ IF CallBinds(MainCallKeywords, RunPipelineParams, RunPipelineRequired)
       THEN /\ main_pc' = "in_call"
            /\ phase' = next_phase
            /\ pc' = "load_sf"
            /\ company_code' = code
            /\ max_dist' = MAX_DIST
            /\ error' = error
            /\ df_sf' = <<>>
            /\ df_bi' = <<>>
            /\ df_pairs' = <<>>
            /\ i' = 1
            /\ dist' = 0
            /\ results' = <<>>
            /\ df_results' = <<>>
       ELSE /\ main_pc' = "raised"
            /\ error' = "TypeError"
            /\ UNCHANGED <<phase, pc, company_code, max_dist, df_sf, df_bi,
                           df_pairs, i, dist, results, df_results>>
    /\ UNCHANGED code_idx

MainSkip(next_phase, next_idx) ==
    /\ phase' = next_phase
    /\ code_idx' = next_idx
    /\ UNCHANGED <<main_pc, calls, pc, error, company_code, max_dist, df_sf,
                   df_bi, df_pairs, i, dist, results, df_results>>

\* Lines 68-93: one step of the loop over company_list.
MainLoopStep ==
    /\ main_pc = "loop"
    /\ IF code_idx > Len(company_list)
       THEN /\ main_pc' = "done"
            /\ UNCHANGED <<code_idx, phase, calls, pc, error, company_code,
                           max_dist, df_sf, df_bi, df_pairs, i, dist, results,
                           df_results>>
       ELSE LET code == company_list[code_idx] IN
            CASE phase = "buildops" ->
                   IF SYSTEM \in BuildopsSystems
                   THEN MainCall(code, "BUILDOPS", "spectrum")
                   ELSE MainSkip("spectrum", code_idx)
              [] phase = "spectrum" ->
                   IF SYSTEM \in SpectrumSystems
                   THEN MainCall(code, "SPECTRUM", "finished")
                   ELSE MainSkip("finished", code_idx)
              [] OTHER ->
                   MainSkip("buildops", code_idx + 1)
    /\ UNCHANGED <<cfgVars, company_list, caller, ResultsBI, normVars,
                   pureVars>>

----------------------------------------------------------------------------
(* The program *)

Next ==
    \/ MainDetermineCodes
    \/ MainValidateSystem
    \/ MainLoopStep
    \/ LoadSfAccounts
    \/ LoadBiCustomers
    \/ BlockPairs
    \/ ComputeMatchesRow
    \/ ComputeMatchesFlag
    \/ SkipNoMatches
    \/ InsertResults

Spec == Init /\ [][Next]_vars

----------------------------------------------------------------------------
(* compute_matches called on one candidate row *)

ScoreBINames ==
    { None, <<"F","y","i">>, <<"A","c","m","e"," ","C","o">>,
      <<"A","b","b","o","t">> }

ScoreSFNames ==
    { <<>>, <<"f","y","i">>, <<"F","g","o">>, <<"A","C","M","E">>,
      <<"A","c","m","y">> }

ScoreBIContents ==
    [ Name : ScoreBINames,
      Customer_Email : { None, <<" ","A","@","x">> },
      City : { None, <<" ">>, <<"D","v"," ">> },
      State : { None, <<"C","o","l","o","r","a","d","o">>,
                <<"N","a","r","n","i","a">> } ]

ScoreSFContents ==
    [ Name : ScoreSFNames,
      Email__c : { None, <<" ">>, <<"a","@","x">>, <<"b","@","x">> },
      BillingCity : { None, <<"d","v">>, <<"a","b">> },
      BillingState : { None, <<"c","o">> },
      ShippingCity : { None, <<"d","v">> },
      ShippingState : { None, <<"t","e","x","a","s"," ">> } ]

ScoreInit ==
    /\ NORMALIZER_VERSION \in Versions
    /\ SYSTEM = <<"b","u","i","l","d","o","p","s">>
    /\ COMPANY_CODE = <<"A","L","L">>
    /\ MAX_DIST \in MaxDists
    /\ db = [c \in Codes |-> [sf |-> <<>>, bi |-> <<>>]]
    /\ MainIdle
    /\ caller = "compute_matches"
    /\ pc = "score"
    /\ company_code = <<"C","1">>
    /\ max_dist = MAX_DIST
    /\ error = "none"
    /\ df_sf = <<>>
    /\ df_bi = <<>>
    /\ \E b \in ScoreBIContents, s \in ScoreSFContents :
          df_pairs = TagCompanyCode(<<MergedRow(BIRow(1, b), SFRow(1, s))>>,
                                    <<"C","1">>)
    /\ i = 1
    /\ dist = 0
    /\ results = <<>>
    /\ df_results = <<>>
    /\ ResultsBI = <<>>
    /\ NormIdle
    /\ PureIdle

ScoreNext == ComputeMatchesRow \/ ComputeMatchesFlag

ScoreSpec == ScoreInit /\ [][ScoreNext]_vars

----------------------------------------------------------------------------
(* normalize applied once and twice *)

NormAlphabet == {"c", "o", "C", " ", "\t", "&", "."}

NormInputs ==
    {None} \cup UNION { [1..m -> NormAlphabet] : m \in 0..MaxNameLen }

NormInit ==
    /\ NORMALIZER_VERSION \in Versions
    /\ SYSTEM = <<"b","u","i","l","d","o","p","s">>
    /\ COMPANY_CODE = <<"A","L","L">>
    /\ MAX_DIST = 1
    /\ db = [c \in Codes |-> [sf |-> <<>>, bi |-> <<>>]]
    /\ MainIdle
    /\ caller = "normalize"
    /\ pc = "idle"
    /\ company_code = <<>>
    /\ max_dist = MAX_DIST
    /\ UnitLocalsFresh
    /\ norm_pc = "input"
    /\ norm_in \in NormInputs
    /\ norm_once = <<>>
    /\ norm_twice = <<>>
    /\ PureIdle

NormalizeOnce ==
    /\ norm_pc = "input"
    /\ norm_once' = normalize(NORMALIZER_VERSION, norm_in)
    /\ norm_pc' = "once"
    /\ UNCHANGED <<cfgVars, mainVars, unitVars, norm_in, norm_twice, pureVars>>

NormalizeTwice ==
    /\ norm_pc = "once"
    /\ norm_twice' = normalize(NORMALIZER_VERSION, norm_once)
    /\ norm_pc' = "twice"
    /\ UNCHANGED <<cfgVars, mainVars, unitVars, norm_in, norm_once, pureVars>>

NormNext == NormalizeOnce \/ NormalizeTwice

NormSpec == NormInit /\ [][NormNext]_vars

----------------------------------------------------------------------------
(* Properties *)

\* The rows of one frame that belong to one customer.
SameCustomer(rows, j, n) == rows[j].CustomerId = rows[n].CustomerId

\* C1 (threshold invariant): every row compute_matches has emitted, every row
\* of the frame it returns and every row written to ResultsBI has
\* Dist <= max_dist.
C1_ThresholdInvariant ==
    /\ \A j \in 1..Len(results) : results[j].Dist <= max_dist
    /\ \A j \in 1..Len(df_results) : df_results[j].Dist <= max_dist
    /\ \A j \in 1..Len(ResultsBI) : ResultsBI[j].Dist <= max_dist

\* A unit was persisted after the threshold dropped one candidate and kept
\* another exactly at the threshold.
C1_Witness ==
    /\ pc = "returned"
    /\ ResultsBI # <<>>
    /\ Len(ResultsBI) < Len(df_pairs)
    /\ \E j \in 1..Len(ResultsBI) : ResultsBI[j].Dist = max_dist

\* C2 (best-match completeness): in the frame compute_matches returns, and in
\* the rows persisted from it, a row is flagged exactly when no row of the
\* same CustomerId has a smaller TotalScore; hence every CustomerId with a
\* row has a flagged row and all rows tied at the minimum are flagged.
C2_BestMatchComplete ==
    /\ \A j \in 1..Len(df_results) :
         /\ df_results[j].BestMatchFlag \in {0, 1}
         /\ df_results[j].BestMatchFlag = 1
              <=> \A n \in 1..Len(df_results) :
                     SameCustomer(df_results, j, n)
                        => df_results[j].TotalScore <= df_results[n].TotalScore
         /\ \E n \in 1..Len(df_results) :
               SameCustomer(df_results, j, n) /\ df_results[n].BestMatchFlag = 1
    /\ \A j \in 1..Len(ResultsBI) :
         ResultsBI[j].BestMatchFlag = 1
            <=> \A n \in 1..Len(ResultsBI) :
                   SameCustomer(ResultsBI, j, n)
                      => ResultsBI[j].TotalScore <= ResultsBI[n].TotalScore

\* Two rows of one customer tie at the minimum and both are flagged, and are
\* persisted so.
C2_Witness ==
    /\ pc = "returned"
    /\ \E j, n \in 1..Len(ResultsBI) :
          /\ j # n
          /\ SameCustomer(ResultsBI, j, n)
          /\ ResultsBI[j].TotalScore = ResultsBI[n].TotalScore
          /\ ResultsBI[j].BestMatchFlag = 1
          /\ ResultsBI[n].BestMatchFlag = 1

\* C3 (failure isolation), as claimed: a failure of one unit's run never ends
\* main; main ends by an exception only before the first unit is started.
C3_FailureIsolation ==
    (caller = "main" /\ main_pc = "raised") => calls = <<>>

\* C4 (idempotence): in both modes normalize(normalize(x)) = normalize(x).
C4_NormalizeIdempotent ==
    norm_pc = "twice" => norm_twice = norm_once

\* The aggressive mode removed a legal suffix and kept a name, and the second
\* application was made.
C4_Witness ==
    /\ norm_pc = "twice"
    /\ NORMALIZER_VERSION = "v2"
    /\ norm_once # <<>>
    /\ Len(norm_once) < Len(norm_in)
    /\ norm_in # None

\* The candidate row compute_matches has just processed, and its names.
DoneRow == df_pairs[i - 1]

BiNorm == normalize(NORMALIZER_VERSION, OrEmpty(DoneRow.BIName))

SfNorm == normalize(NORMALIZER_VERSION, OrEmpty(DoneRow.SFName))

RowProcessed == pc \in {"score", "scored"} /\ i > 1

ShortNames ==
    Min2(Len(BiNorm), Len(SfNorm)) >= 1 /\ Min2(Len(BiNorm), Len(SfNorm)) <= 3

Emitted ==
    \E j \in 1..Len(results) :
        /\ results[j].CustomerId = DoneRow.CustomerId
        /\ results[j].AccountId = DoneRow.AccountId

\* C5 (short-name rule), as claimed: Dist is 0 for equal short names and
\* max(4, max_dist) otherwise, and a pair of unequal short names is never
\* emitted.
C5_ShortNameNeverEmitted ==
    (RowProcessed /\ ShortNames) =>
        /\ dist = (IF BiNorm = SfNorm THEN 0 ELSE Max2(4, max_dist))
        /\ BiNorm # SfNorm => ~Emitted

\* C5 as amended: Dist is 0 for equal short names and max(4, max_dist)
\* otherwise; a pair of unequal short names is emitted exactly when
\* max_dist >= 4, and then with Dist = max_dist.
C5_ShortNameRule ==
    (RowProcessed /\ ShortNames) =>
        /\ dist = (IF BiNorm = SfNorm THEN 0 ELSE Max2(4, max_dist))
        /\ BiNorm = SfNorm => Emitted
        /\ BiNorm # SfNorm => (Emitted <=> max_dist >= 4)
        /\ (BiNorm # SfNorm /\ Emitted) => results[1].Dist = max_dist

\* Unequal short names were scored under a threshold of 4 or more and the
\* row was emitted.
C5_Witness ==
    /\ RowProcessed
    /\ ShortNames
    /\ BiNorm # SfNorm
    /\ max_dist >= 4
    /\ Emitted

\* The data of the unit of a call: empty on a side, no candidate after
\* blocking, or no candidate within the threshold.
SkipCase(code) ==
    LET pairs == block_pairs(db[code].sf, db[code].bi) IN
    \A j \in 1..Len(pairs) :
        RowDist(pairs[j], MAX_DIST, NORMALIZER_VERSION) > MAX_DIST

\* C6 (empty-input skip), as claimed: for a unit with nothing to persist,
\* run_pipeline returns normally without writing a row, and main goes on to
\* the next unit (it is not ended by that unit's call).
C6_EmptyInputSkip ==
    /\ (caller = "run_pipeline" /\ SkipCase(company_code)) =>
          /\ ResultsBI = <<>>
          /\ pc = "raised" => error = "DBError"
    /\ (caller = "main" /\ calls # <<>>
          /\ SkipCase(calls[Len(calls)].company_code)) =>
          /\ ResultsBI = <<>>
          /\ main_pc = "raised" => error = "DBError"

\* C7 (configuration error ordering): with an unrecognised SYSTEM main never
\* reaches its loop: no run_pipeline call is made, no unit runs and nothing is
\* persisted, and once past the validation main has ended by an exception.
C7_ConfigErrorBeforeUnits ==
    (caller = "main" /\ SYSTEM \notin valid_systems) =>
        /\ main_pc \in {"start", "validate", "raised"}
        /\ calls = <<>>
        /\ pc = "idle"
        /\ ResultsBI = <<>>

\* main has raised ValueError for an unrecognised SYSTEM with company codes
\* waiting to be run.
C7_Witness ==
    /\ caller = "main"
    /\ SYSTEM \notin valid_systems
    /\ main_pc = "raised"
    /\ error = "ValueError"
    /\ company_list # <<>>

Missing(v) == CleanField(v) = <<>>

SfCityMissing == Missing(DoneRow.SFBillingCity) /\ Missing(DoneRow.SFShippingCity)

BiStateCode == normalize_state(Strip(OrEmpty(DoneRow.BIState)))

SfStateCodes ==
    { normalize_state(Strip(OrEmpty(DoneRow.SFBillingState))),
      normalize_state(Strip(OrEmpty(DoneRow.SFShippingState))) } \ { <<>> }

SfStateMissing == Missing(DoneRow.SFBillingState) /\ Missing(DoneRow.SFShippingState)

MultiSignalBonus(d, email, phone, zip, city, state) ==
    LET signals == { <<"dist", d <= 1>>, <<"email", email < 0>>,
                     <<"phone", phone < 0>>, <<"zip", zip < 0>>,
                     <<"city", city < 0>>, <<"state", state < 0>> }
    IN IF Cardinality({s \in signals : s[2]}) >= 3 THEN -1 ELSE 0

\* C9 (total score formula), as claimed: TotalScore is the sum of the name
\* distance, the email, phone, zip, city and state scores and the
\* multi-signal bonus (no phone or zip is loaded, so those two score 0).
C9_TotalScoreWithBonus ==
    \A j \in 1..Len(results) :
        LET r == results[j] IN
        r.TotalScore = r.Dist + r.EmailScore + 0 + 0 + r.AddressCityScore
                         + r.StateScore
                         + MultiSignalBonus(r.Dist, r.EmailScore, 0, 0,
                                            r.AddressCityScore, r.StateScore)

\* What compute_matches computes in place of C9: TotalScore is the sum of
\* the name distance and the email, city and state scores, each computed from
\* the row's own two records and max_dist.
CodeTotalScoreFormula ==
    (RowProcessed /\ Emitted) =>
        LET r == results[1] IN
        /\ r.Dist = dist
        /\ r.EmailScore = EmailScore(DoneRow)
        /\ r.AddressCityScore = CityScore(DoneRow)
        /\ r.StateScore = StateScore(DoneRow)
        /\ r.TotalScore = r.Dist + r.EmailScore + r.AddressCityScore + r.StateScore

\* A row was emitted with three corroborating signals (distance, email,
\* city) and a state mismatch; its TotalScore is the plain sum.
CodeTotalScoreCase ==
    /\ RowProcessed
    /\ Emitted
    /\ results[1].Dist = 0
    /\ results[1].EmailScore = -1
    /\ results[1].AddressCityScore = -1
    /\ results[1].StateScore = 1
    /\ results[1].TotalScore = -1

\* The unit-cost edit distance, by its defining recursion.
RECURSIVE EditDistance(_, _)
EditDistance(a, b) ==
    IF a = <<>> THEN Len(b)
    ELSE IF b = <<>> THEN Len(a)
    ELSE IF Head(a) = Head(b) THEN EditDistance(Tail(a), Tail(b))
    ELSE LET m == { EditDistance(Tail(a), b), EditDistance(a, Tail(b)),
                    EditDistance(Tail(a), Tail(b)) }
         IN 1 + (CHOOSE x \in m : \A y \in m : x <= y)

LongNames == Len(BiNorm) >= 4 /\ Len(SfNorm) >= 4

\* The distances the fusion can give for the processed row, over the scores
\* fuzzy_similarity_score can return with and without rapidfuzz.
FusedDists ==
    { Min2(EditDistance(BiNorm, SfNorm), fuzzy_score_to_dist(s, max_dist)) :
        s \in UNION { FuzzySimilarityScores(BiNorm, SfNorm, h) : h \in BOOLEAN } }

\* C10 (distance fusion), as claimed: for two names of at least 4 characters
\* the Dist used for filtering is the minimum of the edit distance and the
\* pseudo-distance of the fuzzy score.
C10_DistanceFusion ==
    (RowProcessed /\ LongNames) => dist \in FusedDists

\* What compute_matches computes in place of C10: for two names of at least
\* 4 characters the Dist used for filtering and scoring is the unit-cost edit
\* distance alone; the row is emitted exactly when it is at most max_dist.
CodeEditDistanceOnly ==
    (RowProcessed /\ LongNames) =>
        /\ dist = EditDistance(BiNorm, SfNorm)
        /\ Emitted <=> dist <= max_dist
        /\ Emitted => results[1].Dist = dist

\* Two long names further apart than max_dist >= 3 were scored: the row was
\* dropped, where any fused distance would have kept it.
CodeEditDistanceCase ==
    /\ RowProcessed
    /\ LongNames
    /\ max_dist >= 3
    /\ dist > max_dist
    /\ ~Emitted

----------------------------------------------------------------------------
(* The name distance of compute_matches on a pair of names and on the
   swapped pair *)

\* Longest raw name of a pair.
MaxPairNameLen == 5

PairAlphabet == {"a", "B"}

PairNames ==
    {None} \cup UNION { [1..m -> PairAlphabet] : m \in 0..MaxPairNameLen }

\* A candidate row as far as lines 248-267 read it.
NameRow(bi_name, sf_name) == [BIName |-> bi_name, SFName |-> sf_name]

DistInit ==
    /\ NORMALIZER_VERSION \in Versions
    /\ SYSTEM = <<"b","u","i","l","d","o","p","s">>
    /\ COMPANY_CODE = <<"A","L","L">>
    /\ MAX_DIST \in MaxDists
    /\ db = [c \in Codes |-> [sf |-> <<>>, bi |-> <<>>]]
    /\ MainIdle
    /\ caller = "name_distance"
    /\ pc = "idle"
    /\ company_code = <<>>
    /\ max_dist = MAX_DIST
    /\ UnitLocalsFresh
    /\ NormIdle
    /\ fn_pc = "input"
    /\ arg_1 \in PairNames
    /\ arg_2 \in PairNames
    /\ res_1 = 0
    /\ res_2 = 0

\* Lines 248-267 on the row (BIName = arg_1, SFName = arg_2).
NameDistanceForward ==
    /\ caller = "name_distance"
    /\ fn_pc = "input"
    /\ res_1' = RowDist(NameRow(arg_1, arg_2), max_dist, NORMALIZER_VERSION)
    /\ fn_pc' = "forward"
    /\ UNCHANGED <<cfgVars, mainVars, unitVars, normVars, arg_1, arg_2, res_2>>

\* Lines 248-267 on the row (BIName = arg_2, SFName = arg_1).
NameDistanceBackward ==
    /\ caller = "name_distance"
    /\ fn_pc = "forward"
    /\ res_2' = RowDist(NameRow(arg_2, arg_1), max_dist, NORMALIZER_VERSION)
    /\ fn_pc' = "both"
    /\ UNCHANGED <<cfgVars, mainVars, unitVars, normVars, arg_1, arg_2, res_1>>

DistNext == NameDistanceForward \/ NameDistanceBackward

DistSpec == DistInit /\ [][DistNext]_vars

\* C11: the name distance of a pair of names (empty-name branch, short-name
\* branch or edit distance) is the same whichever of the two names is the BI
\* name and whichever the SF name, for every max_dist.
C11_DistanceSymmetry ==
    (caller = "name_distance" /\ fn_pc = "both") => res_1 = res_2

\* The edit-distance branch on two different names of different lengths,
\* with a distance within the threshold.
C11_Witness ==
    /\ caller = "name_distance"
    /\ fn_pc = "both"
    /\ Len(normalize(NORMALIZER_VERSION, OrEmpty(arg_1))) = 4
    /\ Len(normalize(NORMALIZER_VERSION, OrEmpty(arg_2))) = 5
    /\ res_1 = res_2
    /\ res_1 = 2
    /\ res_1 <= max_dist

----------------------------------------------------------------------------
(* block_pairs on its own *)

BlockNames ==
    { None, <<>>, <<"A","b">>, <<" ","a","b">>, <<" ","c","d">>,
      <<"A","b","c","d","e","f">> }

BlockBIContents ==
    [ Name : BlockNames, Customer_Email : {None}, City : {None},
      State : {None} ]

BlockSFContents ==
    [ Name : BlockNames, Email__c : {None}, BillingCity : {None},
      BillingState : {None}, ShippingCity : {None}, ShippingState : {None} ]

BlockBITables(n) ==
    UNION { { [j \in 1..m |-> BIRow(j, f[j])] : f \in [1..m -> BlockBIContents] }
            : m \in 0..n }

BlockSFTables(n) ==
    UNION { { [j \in 1..m |-> SFRow(j, f[j])] : f \in [1..m -> BlockSFContents] }
            : m \in 0..n }

\* block_pairs(df_sf, df_bi) is about to be called on two loaded frames.
BlockInit ==
    /\ NORMALIZER_VERSION \in Versions
    /\ SYSTEM = <<"b","u","i","l","d","o","p","s">>
    /\ COMPANY_CODE = <<"A","L","L">>
    /\ MAX_DIST = 1
    /\ db = [c \in Codes |-> [sf |-> <<>>, bi |-> <<>>]]
    /\ MainIdle
    /\ caller = "block_pairs"
    /\ pc = "block"
    /\ company_code = <<"C","1">>
    /\ max_dist = MAX_DIST
    /\ error = "none"
    /\ df_sf \in BlockSFTables(MaxRows)
    /\ df_bi \in BlockBITables(MaxRows)
    /\ df_pairs = <<>>
    /\ i = 1
    /\ dist = 0
    /\ results = <<>>
    /\ df_results = <<>>
    /\ ResultsBI = <<>>
    /\ NormIdle
    /\ PureIdle

BlockNext == BlockPairs

BlockSpec == BlockInit /\ [][BlockNext]_vars

Blocked == caller = "block_pairs" /\ pc \in {"returned", "score"}

\* The blocking key the claim describes: the uppercased first character of
\* the normalized name; a record whose normalized name is empty has none.
NormKey(name) == FirstChar(normalize(NORMALIZER_VERSION, OrEmpty(name)))

NormLen(name) == Len(normalize(NORMALIZER_VERSION, OrEmpty(name)))

NormKeyAndBand(bi_name, sf_name) ==
    /\ NormKey(bi_name) # NaN
    /\ NormKey(bi_name) = NormKey(sf_name)
    /\ NormLen(bi_name) - NormLen(sf_name) <= LengthBand
    /\ NormLen(sf_name) - NormLen(bi_name) <= LengthBand

IsCandidate(bi, sf) ==
    \E n \in 1..Len(df_pairs) :
        df_pairs[n].CustomerId = bi.CustomerId /\ df_pairs[n].AccountId = sf.Id

\* C12: every candidate pair block_pairs returns has normalized names with
\* the same uppercased first character and lengths at most 3 apart, and every
\* BI / SF pair of records whose normalized names satisfy both conditions is
\* returned as a candidate.
C12_BlockingOnNormalizedNames ==
    Blocked =>
        /\ \A n \in 1..Len(df_pairs) :
              NormKeyAndBand(df_pairs[n].BIName, df_pairs[n].SFName)
        /\ \A b \in 1..Len(df_bi), a \in 1..Len(df_sf) :
              NormKeyAndBand(df_bi[b].Name, df_sf[a].Name)
                  => IsCandidate(df_bi[b], df_sf[a])

\* What lines 178-194 do: key and length are taken from the raw names.
RawKeyAndBand(bi_name, sf_name) ==
    /\ FirstChar(bi_name) = FirstChar(sf_name)
    /\ InLengthBand(bi_name, sf_name)

CodeBlocksOnRawNames ==
    Blocked =>
        \A b \in 1..Len(df_bi), a \in 1..Len(df_sf) :
            IsCandidate(df_bi[b], df_sf[a])
                <=> RawKeyAndBand(df_bi[b].Name, df_sf[a].Name)

\* A pair whose normalized names are equal is not a candidate, because one
\* raw name starts with a blank.
CodeBlocksOnRawNamesCase ==
    /\ Blocked
    /\ \E b \in 1..Len(df_bi), a \in 1..Len(df_sf) :
          /\ df_bi[b].Name = <<" ","a","b">>
          /\ df_sf[a].Name = <<"A","b">>
          /\ ~IsCandidate(df_bi[b], df_sf[a])

----------------------------------------------------------------------------
(* The order of the units and of the steps of a unit *)

\* The units main's loop selects for one company code (lines 71-89).
UnitsOf(code) ==
    (IF SYSTEM \in BuildopsSystems
     THEN <<[company_code |-> code, source_system |-> "BUILDOPS"]>> ELSE <<>>)
    \o
    (IF SYSTEM \in SpectrumSystems
     THEN <<[company_code |-> code, source_system |-> "SPECTRUM"]>> ELSE <<>>)

\* All units in the order of company_list.
RECURSIVE UnitList(_)
UnitList(codes) ==
    IF codes = <<>> THEN <<>>
    ELSE UnitsOf(Head(codes)) \o UnitList(Tail(codes))

IsPrefix(p, q) == Len(p) <= Len(q) /\ SubSeq(q, 1, Len(p)) = p

\* The moves of run_pipeline's position the claimed order allows: load,
\* block, score with BestMatchFlag, persist or skip; a new unit starts only
\* where no unit has started or the previous one has returned.
StepOrder ==
    { <<"idle", "load_sf">>, <<"returned", "load_sf">>,
      <<"load_sf", "load_bi">>, <<"load_sf", "raised">>,
      <<"load_bi", "block">>, <<"load_bi", "raised">>,
      <<"block", "score">>, <<"block", "returned">>,
      <<"score", "scored">>,
      <<"scored", "returned">>, <<"scored", "raised">> }

StepsInOrder ==
    /\ pc' # pc => <<pc, pc'>> \in StepOrder
    /\ ResultsBI' # ResultsBI =>
          /\ pc = "scored"
          /\ i > Len(df_pairs)
          /\ df_results = WithBestMatchFlag(results)
          /\ pc' = "returned"

UnitsInOrder ==
    caller = "main" => IsPrefix(calls, UnitList(company_list))

\* A unit main has reached is processed: its load step has begun.
CalledUnitProcessed ==
    (caller = "main" /\ calls # <<>>) => pc # "idle"

\* C13: units are processed one at a time in company-list order, BUILDOPS
\* before SPECTRUM; the steps of a unit occur in the order load, block, score,
\* BestMatchFlag, persist; persistence happens at most once per unit and only
\* after BestMatchFlag was computed over the complete result set; the next
\* unit begins only after the current one was persisted or skipped.
C13_UnitSequencing ==
    /\ []UnitsInOrder
    /\ []CalledUnitProcessed
    /\ [][StepsInOrder]_vars

\* What holds of the code: the order is never broken, because run_pipeline
\* called on its own runs its steps in this order and main never gets past
\* its first call.
CodeStepsNeverOutOfOrder ==
    /\ []UnitsInOrder
    /\ [][StepsInOrder]_vars

\* A directly called run_pipeline has persisted its flagged rows.
CodeStepsCase ==
    /\ caller = "run_pipeline"
    /\ pc = "returned"
    /\ ResultsBI # <<>>
    /\ ResultsBI = Project(df_results, InsertCols)

\* main has reached its first unit and ended there without a load.
CodeFirstCallCase ==
    /\ caller = "main"
    /\ Len(calls) = 1
    /\ main_pc = "raised"
    /\ error = "TypeError"
    /\ pc = "idle"

----------------------------------------------------------------------------
(* normalizer.py: normalize_name, applied once and twice *)

\* Line 5: re.sub(r'[^a-z0-9]', '', name).
KeepAlnum(s) == SelectSeq(s, LAMBDA c : c \in LowerLetters \cup Digits)

\* Line 6: the suffixes, in the order the loop tries them.
NameSuffixes ==
    << <<"l","l","c">>, <<"i","n","c">>, <<"c","o">>,
       <<"c","o","m","p","a","n","y">>, <<"c","o","r","p">>,
       <<"c","o","r","p","o","r","a","t","i","o","n">>, <<"l","t","d">> >>

\* str.endswith
EndsWith(s, suffix) ==
    /\ Len(suffix) <= Len(s)
    /\ SubSeq(s, Len(s) - Len(suffix) + 1, Len(s)) = suffix

\* Lines 6-8: one pass over the suffixes; name[:-len(s)] where name ends with s.
RECURSIVE StripSuffixes(_, _)
StripSuffixes(name, suffixes) ==
    IF suffixes = <<>> THEN name
    ELSE LET suf == Head(suffixes)
             cut == IF EndsWith(name, suf)
                    THEN SubSeq(name, 1, Len(name) - Len(suf))
                    ELSE name
         IN StripSuffixes(cut, Tail(suffixes))

normalize_name(name) ==
    IF ~Truthy(name) THEN <<>>
    ELSE Strip(StripSuffixes(KeepAlnum(Lower(name)), NameSuffixes))

\* Longest input of normalize_name.
MaxSuffixNameLen == 6

SuffixAlphabet == {"l", "c", "i", "n", "O", "."}

SuffixInputs ==
    {None} \cup UNION { [1..m -> SuffixAlphabet] : m \in 0..MaxSuffixNameLen }

NameInit ==
    /\ NORMALIZER_VERSION = "v1"
    /\ SYSTEM = <<"b","u","i","l","d","o","p","s">>
    /\ COMPANY_CODE = <<"A","L","L">>
    /\ MAX_DIST = 1
    /\ db = [c \in Codes |-> [sf |-> <<>>, bi |-> <<>>]]
    /\ MainIdle
    /\ caller = "normalize_name"
    /\ pc = "idle"
    /\ company_code = <<>>
    /\ max_dist = MAX_DIST
    /\ UnitLocalsFresh
    /\ norm_pc = "input"
    /\ norm_in \in SuffixInputs
    /\ norm_once = <<>>
    /\ norm_twice = <<>>
    /\ PureIdle

NormalizeNameOnce ==
    /\ caller = "normalize_name"
    /\ norm_pc = "input"
    /\ norm_once' = normalize_name(norm_in)
    /\ norm_pc' = "once"
    /\ UNCHANGED <<cfgVars, mainVars, unitVars, norm_in, norm_twice, pureVars>>

NormalizeNameTwice ==
    /\ caller = "normalize_name"
    /\ norm_pc = "once"
    /\ norm_twice' = normalize_name(norm_once)
    /\ norm_pc' = "twice"
    /\ UNCHANGED <<cfgVars, mainVars, unitVars, norm_in, norm_once, pureVars>>

NameNext == NormalizeNameOnce \/ NormalizeNameTwice

NameSpec == NameInit /\ [][NameNext]_vars

\* C14: normalize_name is idempotent: applying it to its own output gives
\* that output again, also for names that end in several legal suffixes.
C14_NormalizeNameIdempotent ==
    (caller = "normalize_name" /\ norm_pc = "twice") => norm_twice = norm_once

\* What holds of the code: one pass removes at most one occurrence of each
\* suffix, so a second application can only strip more from the end.
CodeNormalizeNameShrinks ==
    (caller = "normalize_name" /\ norm_pc = "twice") =>
        /\ Len(norm_twice) <= Len(norm_once)
        /\ SubSeq(norm_once, 1, Len(norm_twice)) = norm_twice

\* The claim's example: a name ending in "llc" followed by "inc".
CodeNormalizeNameCase ==
    /\ caller = "normalize_name"
    /\ norm_pc = "twice"
    /\ norm_in = <<"l","l","c","i","n","c">>
    /\ norm_once = <<"l","l","c">>
    /\ norm_twice = <<>>

----------------------------------------------------------------------------
(* matcher.py: fuzzy_score_to_dist on two scores *)

\* The similarity scores: 0..100 (fuzzy_similarity_score, lines 114-128).
Scores == 0..100

FuzzyInit ==
    /\ NORMALIZER_VERSION = "v1"
    /\ SYSTEM = <<"b","u","i","l","d","o","p","s">>
    /\ COMPANY_CODE = <<"A","L","L">>
    /\ MAX_DIST \in MaxDists
    /\ db = [c \in Codes |-> [sf |-> <<>>, bi |-> <<>>]]
    /\ MainIdle
    /\ caller = "fuzzy_score_to_dist"
    /\ pc = "idle"
    /\ company_code = <<>>
    /\ max_dist = MAX_DIST
    /\ UnitLocalsFresh
    /\ NormIdle
    /\ fn_pc = "input"
    /\ arg_1 \in Scores
    /\ arg_2 \in Scores
    /\ res_1 = 0
    /\ res_2 = 0

ScoreToDistFirst ==
    /\ caller = "fuzzy_score_to_dist"
    /\ fn_pc = "input"
    /\ res_1' = fuzzy_score_to_dist(arg_1, max_dist)
    /\ fn_pc' = "first"
    /\ UNCHANGED <<cfgVars, mainVars, unitVars, normVars, arg_1, arg_2, res_2>>

ScoreToDistSecond ==
    /\ caller = "fuzzy_score_to_dist"
    /\ fn_pc = "first"
    /\ res_2' = fuzzy_score_to_dist(arg_2, max_dist)
    /\ fn_pc' = "both"
    /\ UNCHANGED <<cfgVars, mainVars, unitVars, normVars, arg_1, arg_2, res_1>>

FuzzyNext == ScoreToDistFirst \/ ScoreToDistSecond

FuzzySpec == FuzzyInit /\ [][FuzzyNext]_vars

BothMapped == caller = "fuzzy_score_to_dist" /\ fn_pc = "both"

\* C15: for every max_dist >= 1 the mapping is monotone: of two scores the
\* higher one never gets the larger pseudo-distance, and a score below 80
\* gets a pseudo-distance at least as large as that of any other score.
C15_ScoreToDistMonotone ==
    BothMapped =>
        /\ arg_1 <= arg_2 => res_2 <= res_1
        /\ arg_1 < 80 => res_1 >= res_2

\* What holds of the code: the mapping is monotone from max_dist = 3 on.
CodeScoreToDistMonotoneFrom3 ==
    (BothMapped /\ max_dist >= 3) =>
        /\ arg_1 <= arg_2 => res_2 <= res_1
        /\ arg_1 < 80 => res_1 >= res_2

\* With max_dist = 1 a score of 50 maps to 1 and a score of 80 to 3.
CodeScoreToDistCase ==
    /\ BothMapped
    /\ max_dist = 1
    /\ arg_1 = 50 /\ res_1 = 1
    /\ arg_2 = 80 /\ res_2 = 3

====
